---- MODULE Spec2Model ----
(***************************************************************************)
(* LAN Watch: the command-line scanner (lan_watch_scanner.py) and the      *)
(* Streamlit dashboard (lan_watch_dashboard.py).                           *)
(*                                                                         *)
(* The routines of the program are operators, computed as the code         *)
(* computes them from the values their external calls return (ipconfig's   *)
(* output, scapy's answered list, the resolver's replies, bleak's          *)
(* discovered devices).  UnitSpec calls each routine on its own with       *)
(* inputs drawn from bounded sets; Spec runs the two front ends.           *)
(***************************************************************************)
EXTENDS Integers, Sequences, FiniteSets, TLC

VARIABLES
    call,       \* UnitSpec: the routine called and its arguments
    ret,        \* UnitSpec: what the call returned ("pending" before it)
    frontend,   \* "cli" (lan_watch_scanner.py) or "dash" (lan_watch_dashboard.py)
    pc,         \* position of the run in main() / in the dashboard script
    local,      \* the run's local variables: target_range, wifi_devices, ...
    session,    \* st.session_state: scan_run, wifi_results, bt_results
    io,         \* what the run did to the outside: frames sent, lookups, scans
    shown,      \* what was presented: the two result tables and messages
    phases,     \* the orchestration phases this run has entered, in order
    cache       \* the dashboard's st.cache_data entry of the range resolver

vars == <<call, ret, frontend, pc, local, session, io, shown, phases, cache>>

unitVars == <<call, ret>>
runVars == <<frontend, pc, local, session, io, shown, phases, cache>>

----------------------------------------------------------------------------
(* Bounds of the model.                                                    *)

\* adapter sections in one ipconfig output
MaxAdapters == 3
\* responses in one answered list of srp()
MaxAnswers == 2
\* hosts handed to one name-enrichment call
MaxHosts == 2
\* advertisements returned by one BleakScanner.discover()
MaxAdverts == 3

----------------------------------------------------------------------------
(* Python values.                                                          *)

\* None where a string is expected (BLEDevice.name, a missing 'name' key)
PyNone == "<None>"
\* None where a network range is expected
NoRange == [none |-> TRUE]

RECURSIVE SeqSum(_)
SeqSum(s) == IF s = <<>> THEN 0 ELSE Head(s) + SeqSum(Tail(s))

\* all sequences over S of length at most n
SeqsUpTo(S, n) == UNION {[1..k -> S] : k \in 0..n}

----------------------------------------------------------------------------
(* ipaddress: IPv4 addresses are four decimal fields; an address is 32     *)
(* bits, most significant first.                                           *)

Pow2(k) == 2 ^ k

Bits8(n) == [i \in 1..8 |-> (n \div Pow2(8 - i)) % 2]

Bits32(o) == Bits8(o[1]) \o Bits8(o[2]) \o Bits8(o[3]) \o Bits8(o[4])

Octet(b, k) == SeqSum([i \in 1..8 |-> b[8 * (k - 1) + i] * Pow2(8 - i)])

OctetsOf(b) == <<Octet(b, 1), Octet(b, 2), Octet(b, 3), Octet(b, 4)>>

\* IPv4Address._ip_int_from_string / _parse_octet: four fields, each <= 255
ValidOctets(o) == \A i \in 1..4 : o[i] <= 255

\* _count_righthand_zero_bits(number, bits): bits when number == 0
RECURSIVE count_righthand_zero_bits(_, _)
count_righthand_zero_bits(b, n) ==
    IF n = 0 THEN 32
    ELSE IF b[n] = 1 THEN 32 - n
    ELSE count_righthand_zero_bits(b, n - 1)

\* _prefix_from_ip_int: the prefix length of a netmask, -1 for ValueError
\* (a mix of ones and zeroes)
prefix_from_ip_int(b) ==
    LET trailing_zeroes == count_righthand_zero_bits(b, 32)
        prefixlen == 32 - trailing_zeroes
    IN  IF \A i \in 1..prefixlen : b[i] = 1 THEN prefixlen ELSE -1

\* _prefix_from_ip_string: netmask first, then hostmask (the inverted bits);
\* -1 for NetmaskValueError
prefix_from_ip_string(mask) ==
    IF ~ValidOctets(mask) THEN -1
    ELSE LET b == Bits32(mask)
             asNet == prefix_from_ip_int(b)
             inverted == [i \in 1..32 |-> 1 - b[i]]
         IN  IF asNet # -1 THEN asNet ELSE prefix_from_ip_int(inverted)

\* _ip_int_from_prefix: prefixlen ones, then zeroes
ip_int_from_prefix(p) == [i \in 1..32 |-> IF i <= p THEN 1 ELSE 0]

\* str(ipaddress.ip_interface(ip/mask).network): the record stands for the
\* text "a.b.c.d/p"; NoRange stands for the ValueError ip_interface raises
ip_interface_network(ip, mask) ==
    IF ~ValidOctets(ip) THEN NoRange
    ELSE LET p == prefix_from_ip_string(mask)
         IN  IF p = -1 THEN NoRange
             ELSE LET a == Bits32(ip)
                      m == ip_int_from_prefix(p)
                  IN  [base |-> OctetsOf([i \in 1..32 |-> a[i] * m[i]]),
                       prefix |-> p]

----------------------------------------------------------------------------
(* get_local_network_range_windows                                         *)

\* the decimal text of n starts with "254"
RECURSIVE StartsWith254(_)
StartsWith254(n) ==
    IF n < 254 THEN FALSE
    ELSE IF n = 254 THEN TRUE
    ELSE StartsWith254(n \div 10)

\* the link-local test left out: every match passes
startswith_169_254_omitted(ip) == FALSE

\* ip_str.startswith("169.254")
startswith_169_254(ip) == ip[1] = 169 /\ StartsWith254(ip[2])

\* re.finditer: an "IPv4 Address" line followed at once by a "Subnet Mask"
\* line is one match; matches do not overlap and come in document order
RECURSIVE re_finditer(_, _)
re_finditer(text, i) ==
    IF i >= Len(text) THEN <<>>
    ELSE IF text[i].kind = "ip" /\ text[i + 1].kind = "mask"
         THEN <<[ip |-> text[i].val, mask |-> text[i + 1].val]>>
                  \o re_finditer(text, i + 2)
         ELSE re_finditer(text, i + 1)

\* the loop without its return: the last match that passes the test decides
RECURSIVE first_active_last(_)
first_active_last(matches) ==
    IF matches = <<>> THEN NoRange
    ELSE LET later == first_active_last(Tail(matches))
         IN  IF later # NoRange THEN later
             ELSE IF ~startswith_169_254(Head(matches).ip)
                  THEN ip_interface_network(Head(matches).ip,
                                            Head(matches).mask)
                  ELSE NoRange

\* the for loop over the matches: the first match that passes the test
\* decides; ip_interface raising, or no match left, ends in the handler
RECURSIVE first_active(_)
first_active(matches) ==
    IF matches = <<>> THEN NoRange
    ELSE IF ~startswith_169_254(Head(matches).ip)
         THEN ip_interface_network(Head(matches).ip, Head(matches).mask)
         ELSE first_active(Tail(matches))

\* proc: what subprocess.run(["ipconfig"], check=True) did
get_local_network_range_windows(proc) ==
    IF proc.raised THEN NoRange
    ELSE first_active(re_finditer(proc.stdout, 1))

----------------------------------------------------------------------------
(* Inputs of the resolver.                                                 *)

OtherLine == [kind |-> "other", val |-> <<>>]

\* the address/mask pairs an adapter section may hold
AdapterPairs ==
    {<<<<192, 168, 1, 42>>, <<255, 255, 255, 0>>>>,
     <<<<192, 168, 1, 42>>, <<255, 0, 255, 0>>>>,
     <<<<192, 168, 1, 42>>, <<0, 0, 0, 255>>>>,
     <<<<10, 0, 0, 5>>, <<255, 255, 255, 0>>>>,
     <<<<10, 0, 0, 5>>, <<255, 255, 0, 0>>>>,
     <<<<169, 254, 1, 5>>, <<255, 255, 0, 0>>>>,
     <<<<169, 254, 1, 5>>, <<255, 0, 255, 0>>>>,
     <<<<300, 1, 1, 1>>, <<255, 255, 255, 0>>>>}

\* one adapter section of the output: address and mask, or either alone
\* (a disconnected or half-configured adapter), or neither
AdapterSections ==
    {<<[kind |-> "ip", val |-> p[1]], [kind |-> "mask", val |-> p[2]]>> :
        p \in AdapterPairs}
        \cup {<<[kind |-> "ip", val |-> <<10, 0, 0, 5>>]>>,
               <<[kind |-> "mask", val |-> <<255, 255, 255, 0>>]>>,
               <<OtherLine>>}

RECURSIVE Flatten(_)
Flatten(ss) == IF ss = <<>> THEN <<>> ELSE Head(ss) \o Flatten(Tail(ss))

IpconfigTexts == {Flatten(ss) : ss \in SeqsUpTo(AdapterSections, MaxAdapters)}

IpconfigRuns ==
    {[raised |-> FALSE, stdout |-> t] : t \in IpconfigTexts}
        \cup {[raised |-> TRUE, stdout |-> <<>>]}

----------------------------------------------------------------------------
(* scan_wifi_network                                                       *)

\* the for loop over answered_list: element k is appended unless the
\* statement raises there (net.raise_at = k)
RECURSIVE wifi_loop(_, _, _, _)
wifi_loop(answered_list, k, raise_at, clients_list) ==
    IF k > Len(answered_list) THEN [raised |-> FALSE, clients |-> clients_list]
    ELSE IF k = raise_at THEN [raised |-> TRUE, clients |-> clients_list]
    ELSE wifi_loop(answered_list, k + 1, raise_at,
                   Append(clients_list,
                          [ip |-> answered_list[k].psrc,
                           mac |-> answered_list[k].hwsrc]))

\* the handler of scan_wifi_network: except Exception ... return []
wifi_except(clients_list) == <<>>

\* net: what scapy did.  net.raise_at = 0: building the frame or srp()
\* raised; k >= 1: the loop raised at element k; -1: nothing raised.
scan_wifi_network(ip_range, net) ==
    IF net.raise_at = 0 THEN wifi_except(<<>>)
    ELSE LET r == wifi_loop(net.answered, 1, net.raise_at, <<>>)
         IN  IF r.raised THEN wifi_except(r.clients) ELSE r.clients

\* whether srp() was reached, that is, whether frames went out
frames_sent(net) == net.raise_at # 0 \/ net.in_srp

----------------------------------------------------------------------------
(* Hostname lookup.  Time is counted in tenths of a second.                *)

\* socket.setdefaulttimeout(0.5)
SocketDefaultTimeout == 5

\* one socket.gethostbyaddr call: how it ended and how long it took
LookupOutcomes ==
    {[kind |-> "ok", hostname |-> n, took |-> 1] :
        n \in {"router.local", "nas.local"}}
        \cup {[kind |-> "herror", hostname |-> PyNone, took |-> 1],
              [kind |-> "timeout", hostname |-> PyNone,
               took |-> SocketDefaultTimeout],
              [kind |-> "error", hostname |-> PyNone, took |-> 1]}

\* the name the try/except of enrich_wifi_devices_with_hostname records
enrich_name(out) ==
    IF out.kind = "ok" THEN out.hostname
    ELSE IF out.kind = "herror" THEN "N/A"
    ELSE "N/A"

\* the value get_device_hostname stores in results_dict[ip_address]
device_hostname_value(out) ==
    IF out.kind = "ok" THEN out.hostname
    ELSE IF out.kind = "herror" THEN "N/A"
    ELSE "Error"

\* get_device_hostname(ip_address, results_dict): results_dict afterwards,
\* a set of <<ip, name>> entries, one per key
get_device_hostname(ip_address, results_dict, out) ==
    {e \in results_dict : e[1] # ip_address}
        \cup {<<ip_address, device_hostname_value(out)>>}

\* the for loop of enrich_wifi_devices_with_hostname: host i is looked up
\* when the lookup of host i-1 has returned; clock is the time since the
\* call began.  times[i] = <<start, end>> of the lookup of host i.
RECURSIVE enrich_loop(_, _, _, _, _)
enrich_loop(clients_list, dns, i, clock, acc) ==
    IF i > Len(clients_list) THEN acc
    ELSE LET client == clients_list[i]
             named == [ip |-> client.ip, mac |-> client.mac,
                       name |-> enrich_name(dns[i])]
             end == clock + dns[i].took
         IN  enrich_loop(clients_list, dns, i + 1, end,
                         [clients |-> Append(acc.clients, named),
                          times |-> Append(acc.times, <<clock, end>>)])

enrich_run(clients_list, dns) ==
    IF clients_list = <<>> THEN [clients |-> <<>>, times |-> <<>>]
    ELSE enrich_loop(clients_list, dns, 1, 0,
                     [clients |-> <<>>, times |-> <<>>])

\* the routine returning only the hosts whose lookup gave a hostname
enrich_wifi_devices_named_only(clients_list, dns) ==
    SelectSeq(enrich_run(clients_list, dns).clients,
              LAMBDA client : client.name # "N/A")

enrich_wifi_devices_with_hostname(clients_list, dns) ==
    enrich_run(clients_list, dns).clients

----------------------------------------------------------------------------
(* scan_bluetooth_devices                                                  *)

\* the placeholder compared without regard to case
has_usable_name_nocase(d) ==
    d.name # PyNone /\ d.name # "" /\ d.name # "Unknown" /\ d.name # "unknown"

\* d.name and d.name != "Unknown"
has_usable_name(d) == d.name # PyNone /\ d.name # "" /\ d.name # "Unknown"

RECURSIVE bt_loop(_, _)
bt_loop(discovered_devices, devices_list) ==
    IF discovered_devices = <<>> THEN devices_list
    ELSE LET d == Head(discovered_devices)
         IN  bt_loop(Tail(discovered_devices),
                     IF has_usable_name(d)
                     THEN Append(devices_list,
                                 [name |-> d.name, mac |-> d.address])
                     ELSE devices_list)

\* the handler recording the failure as an entry of the list
scan_bluetooth_devices_marker(ble) ==
    IF ble.raised = "BleakError" THEN <<[name |-> "Error", mac |-> ""]>>
    ELSE bt_loop(ble.discovered, <<>>)

\* ble: what BleakScanner.discover did; a BleakError leaves devices_list = []
scan_bluetooth_devices(ble) ==
    IF ble.raised = "BleakError" THEN <<>>
    ELSE bt_loop(ble.discovered, <<>>)

----------------------------------------------------------------------------
(* Inputs of the prober, the name lookups and the short-range scan.        *)

HostIPs == {<<10, 0, 0, 2>>, <<10, 0, 0, 10>>}

HostMACs == {"aa:bb:cc:dd:ee:ff", "11:22:33:44:55:66"}

Responses == {[psrc |-> i, hwsrc |-> m] : i \in HostIPs, m \in HostMACs}

ScapyRuns ==
    {[answered |-> a, raise_at |-> k, in_srp |-> FALSE] :
        a \in SeqsUpTo(Responses, MaxAnswers), k \in -1..MaxAnswers}
        \cup {[answered |-> <<>>, raise_at |-> 0, in_srp |-> TRUE]}

Hosts == {[ip |-> i, mac |-> m] : i \in HostIPs, m \in HostMACs}

AdvertNames == {PyNone, "", "Unknown", "unknown", "Speaker"}

Adverts == {[name |-> n, address |-> "00:11:22:33:44:55"] : n \in AdvertNames}

BleakRuns ==
    {[raised |-> "no", discovered |-> d] : d \in SeqsUpTo(Adverts, MaxAdverts)}
        \cup {[raised |-> "BleakError", discovered |-> <<>>]}

----------------------------------------------------------------------------
(* UnitSpec: one call of one routine.                                      *)

Pending == [done |-> FALSE]

UnitCalls ==
    {[fn |-> "get_local_network_range_windows", proc |-> p] :
        p \in IpconfigRuns}
    \cup {[fn |-> "scan_wifi_network", net |-> n] :
        n \in {m \in ScapyRuns : m.raise_at <= Len(m.answered)}}
    \cup {[fn |-> "get_device_hostname", ip |-> i, out |-> o, seen |-> r] :
        i \in HostIPs, o \in LookupOutcomes,
        r \in {{}, {<<<<10, 0, 0, 2>>, "nas.local">>}}}
    \cup UNION {{[fn |-> "enrich_wifi_devices_with_hostname",
                  clients |-> c, dns |-> d] :
                    c \in [1..n -> Hosts], d \in [1..n -> LookupOutcomes]} :
                n \in 0..MaxHosts}
    \cup {[fn |-> "scan_bluetooth_devices", ble |-> b] : b \in BleakRuns}

UnitInit ==
    /\ call \in UnitCalls
    /\ ret = Pending
    /\ frontend = "none"
    /\ pc = "unit"
    /\ local = <<>>
    /\ session = <<>>
    /\ io = <<>>
    /\ shown = <<>>
    /\ phases = <<>>
    /\ cache = <<>>

CallResolve ==
    /\ call.fn = "get_local_network_range_windows"
    /\ ~ret.done
    /\ ret' = [done |-> TRUE,
               val |-> get_local_network_range_windows(call.proc)]
    /\ UNCHANGED <<call, runVars>>

CallScanWifi ==
    /\ call.fn = "scan_wifi_network"
    /\ ~ret.done
    /\ ret' = [done |-> TRUE, val |-> scan_wifi_network(NoRange, call.net)]
    /\ UNCHANGED <<call, runVars>>

CallGetDeviceHostname ==
    /\ call.fn = "get_device_hostname"
    /\ ~ret.done
    /\ ret' = [done |-> TRUE,
               val |-> get_device_hostname(call.ip, call.seen, call.out)]
    /\ UNCHANGED <<call, runVars>>

CallEnrich ==
    /\ call.fn = "enrich_wifi_devices_with_hostname"
    /\ ~ret.done
    /\ ret' = [done |-> TRUE,
               val |-> enrich_wifi_devices_with_hostname(call.clients, call.dns),
               times |-> enrich_run(call.clients, call.dns).times]
    /\ UNCHANGED <<call, runVars>>

CallScanBluetooth ==
    /\ call.fn = "scan_bluetooth_devices"
    /\ ~ret.done
    /\ ret' = [done |-> TRUE, val |-> scan_bluetooth_devices(call.ble)]
    /\ UNCHANGED <<call, runVars>>

UnitNext ==
    \/ CallResolve
    \/ CallScanWifi
    \/ CallGetDeviceHostname
    \/ CallEnrich
    \/ CallScanBluetooth

UnitSpec == UnitInit /\ [][UnitNext]_vars

----------------------------------------------------------------------------
(* is_admin and the display routines.                                      *)

\* os: what IsUserAnAdmin() / geteuid() did; an exception gives False
is_admin(os) == IF os.raised THEN FALSE ELSE os.elevated

\* sorted(s, key): stable and ascending; lt[i][j] says that the key of
\* s[i] is less than the key of s[j]
SortedBy(s, lt) ==
    LET n == Len(s)
        rank(i) == 1 + Cardinality({j \in 1..n :
                        lt[j][i] \/ (j < i /\ ~lt[i][j])})
    IN  [k \in 1..n |-> s[CHOOSE i \in 1..n : rank(i) = k]]

RECURSIVE SeqLess(_, _)
SeqLess(a, b) ==
    IF b = <<>> THEN FALSE
    ELSE IF a = <<>> THEN TRUE
    ELSE IF Head(a) # Head(b) THEN Head(a) < Head(b)
    ELSE SeqLess(Tail(a), Tail(b))

\* ipaddress.ip_address(x) < ipaddress.ip_address(y): the order of the
\* 32-bit values, which is the order of the four fields taken left to right
ip_address_less(x, y) == SeqLess(x.ip, y.ip)

\* the code points of the device names that occur
CodePoints(name) ==
    CASE name = "Speaker" -> <<83, 112, 101, 97, 107, 101, 114>>
      [] name = "unknown" -> <<117, 110, 107, 110, 111, 119, 110>>
      [] name = "Unknown" -> <<85, 110, 107, 110, 111, 119, 110>>
      [] OTHER -> <<>>

\* x['name'] < y['name'] for Python strings
name_less(x, y) == SeqLess(CodePoints(x.name), CodePoints(y.name))

\* client.get('name', "N/A")
client_name(client) ==
    IF "name" \in DOMAIN client THEN client.name ELSE "N/A"

\* the rows display_wifi_results prints (names here are under 28 characters)
display_wifi_results(clients_list) ==
    LET n == Len(clients_list)
        lt == [i \in 1..n |-> [j \in 1..n |->
                  ip_address_less(clients_list[i], clients_list[j])]]
        sorted_clients == SortedBy(clients_list, lt)
    IN  [i \in 1..Len(sorted_clients) |->
            [ip |-> sorted_clients[i].ip, mac |-> sorted_clients[i].mac,
             name |-> client_name(sorted_clients[i])]]

\* the rows display_bluetooth_results prints
display_bluetooth_results(clients_list) ==
    LET n == Len(clients_list)
        lt == [i \in 1..n |-> [j \in 1..n |->
                  name_less(clients_list[i], clients_list[j])]]
    IN  SortedBy(clients_list, lt)

\* the rows of the dashboard's Wi-Fi data frame: reindex(columns=[ip, mac,
\* name]) of the stored list, in the stored order
wifi_df(wifi_results) ==
    [i \in 1..Len(wifi_results) |->
        [ip |-> wifi_results[i].ip, mac |-> wifi_results[i].mac,
         name |-> IF "name" \in DOMAIN wifi_results[i]
                  THEN wifi_results[i].name ELSE PyNone]]

\* the rows of the dashboard's Bluetooth data frame
bt_df(bt_results) == bt_results

----------------------------------------------------------------------------
(* Inputs of a run.                                                        *)

AdminChecks ==
    {[raised |-> FALSE, elevated |-> TRUE],
     [raised |-> FALSE, elevated |-> FALSE],
     [raised |-> TRUE, elevated |-> FALSE]}

RunIpconfig ==
    {[raised |-> TRUE, stdout |-> <<>>],
     [raised |-> FALSE,
      stdout |-> <<[kind |-> "ip", val |-> <<169, 254, 1, 5>>],
                   [kind |-> "mask", val |-> <<255, 255, 0, 0>>]>>],
     [raised |-> FALSE,
      stdout |-> <<[kind |-> "ip", val |-> <<10, 0, 0, 5>>],
                   [kind |-> "mask", val |-> <<255, 255, 255, 0>>]>>],
     [raised |-> FALSE,
      stdout |-> <<[kind |-> "ip", val |-> <<169, 254, 1, 5>>],
                   [kind |-> "mask", val |-> <<255, 255, 0, 0>>],
                   [kind |-> "ip", val |-> <<192, 168, 1, 42>>],
                   [kind |-> "mask", val |-> <<255, 255, 255, 0>>]>>]}

\* get_local_network_range_windows() on each of these outputs
RunRange == [proc \in RunIpconfig |-> get_local_network_range_windows(proc)]

RunResponses ==
    {[psrc |-> <<10, 0, 0, 2>>, hwsrc |-> "11:22:33:44:55:66"],
     [psrc |-> <<10, 0, 0, 10>>, hwsrc |-> "aa:bb:cc:dd:ee:ff"]}

RunScapy ==
    {[answered |-> a, raise_at |-> -1, in_srp |-> FALSE] :
        a \in SeqsUpTo(RunResponses, MaxAnswers)}
        \cup {[answered |-> <<>>, raise_at |-> 0, in_srp |-> b] :
                 b \in BOOLEAN}

RunLookups ==
    {o \in LookupOutcomes : o.hostname # "nas.local"}

RunAdverts ==
    {[name |-> n, address |-> "00:11:22:33:44:55"] :
        n \in {"Speaker", "unknown", "Unknown"}}

RunBleak ==
    {[raised |-> "no", discovered |-> d] :
        d \in SeqsUpTo(RunAdverts, MaxAdverts)}
        \cup {[raised |-> "BleakError", discovered |-> <<>>]}

----------------------------------------------------------------------------
(* The state of a run.                                                     *)

LocalInit ==
    [target_range |-> NoRange, wifi_devices |-> <<>>, enriched |-> <<>>,
     bluetooth_devices |-> <<>>]

\* nothing done yet in this run; fresh_range is the range that the
\* interface configuration of the machine gives at the time the run asks
\* for its range
IoInit ==
    [gate |-> 0, elevated |-> FALSE, resolves |-> 0, fresh_range |-> NoRange,
     probes |-> 0, probe_error |-> FALSE, lookups |-> 0, bt_scans |-> 0,
     bt_error |-> FALSE, interrupted |-> FALSE]

NothingShown ==
    [view |-> "none", error |-> "none", tables |-> FALSE,
     wifi |-> <<>>, bt |-> <<>>]

SessionInit == [scan_run |-> FALSE, wifi_results |-> <<>>, bt_results |-> <<>>]

NoCache == [valid |-> FALSE, value |-> NoRange]

\* the page the dashboard script renders when no button was clicked
Render(ss) ==
    IF ss.scan_run
    THEN [view |-> "results", error |-> "none", tables |-> TRUE,
          wifi |-> wifi_df(ss.wifi_results), bt |-> bt_df(ss.bt_results)]
    ELSE [view |-> "start", error |-> "none", tables |-> FALSE,
          wifi |-> <<>>, bt |-> <<>>]

\* the page left by st.stop() inside the Start handler
Stopped(why) ==
    [view |-> "start", error |-> why, tables |-> FALSE,
     wifi |-> <<>>, bt |-> <<>>]

Init ==
    /\ call = <<>>
    /\ ret = <<>>
    /\ frontend \in {"cli", "dash"}
    /\ pc = IF frontend = "cli" THEN "main" ELSE "page"
    /\ local = LocalInit
    /\ session = SessionInit
    /\ io = IoInit
    /\ shown = IF frontend = "cli" THEN NothingShown ELSE Render(SessionInit)
    /\ phases = <<>>
    /\ cache = NoCache

----------------------------------------------------------------------------
(* lan_watch_scanner.py: main()                                            *)

\* Step 1: the admin check; sys.exit(1) when it fails
CliGate ==
    /\ frontend = "cli" /\ pc = "main"
    /\ \E os \in AdminChecks :
        /\ io' = [io EXCEPT !.gate = @ + 1, !.elevated = is_admin(os)]
        /\ IF ~is_admin(os)
           THEN /\ pc' = "exit1"
                /\ phases' = Append(phases, "Failed")
                /\ shown' = [shown EXCEPT !.error = "admin"]
           ELSE /\ pc' = "resolve"
                /\ UNCHANGED <<phases, shown>>
    /\ UNCHANGED <<unitVars, frontend, local, session, cache>>

\* Step 2: the range, on Windows only; sys.exit(1) when there is none
CliResolve ==
    /\ frontend = "cli" /\ pc = "resolve"
    /\ \E platform \in {"Windows", "Other"}, proc \in RunIpconfig :
        LET target_range == IF platform = "Windows"
                            THEN RunRange[proc]
                            ELSE NoRange
        IN  /\ local' = [local EXCEPT !.target_range = target_range]
            /\ io' = [io EXCEPT !.resolves = @ + 1,
                                !.fresh_range = target_range]
            /\ IF target_range = NoRange
               THEN /\ pc' = "exit1"
                    /\ phases' = phases \o <<"RangeResolving", "Failed">>
                    /\ shown' = [shown EXCEPT !.error = "range"]
               ELSE /\ pc' = "probe"
                    /\ phases' = Append(phases, "RangeResolving")
                    /\ UNCHANGED shown
    /\ UNCHANGED <<unitVars, frontend, session, cache>>

\* main() leaving with sys.exit(1) when the ARP scan found nothing
CliProbe_exit_when_empty ==
    /\ frontend = "cli" /\ pc = "probe"
    /\ \E net \in RunScapy :
        /\ local' = [local EXCEPT
               !.wifi_devices = scan_wifi_network(local.target_range, net)]
        /\ io' = [io EXCEPT !.probes = @ + (IF frames_sent(net) THEN 1 ELSE 0),
                            !.probe_error = (net.raise_at # -1)]
        /\ IF scan_wifi_network(local.target_range, net) = <<>>
           THEN pc' = "exit1" /\ phases' = phases \o <<"Probing", "Failed">>
           ELSE pc' = "enrich" /\ phases' = Append(phases, "Probing")
    /\ UNCHANGED <<unitVars, frontend, session, shown, cache>>

\* Step 3: the ARP scan
CliProbe ==
    /\ frontend = "cli" /\ pc = "probe"
    /\ \E net \in RunScapy :
        /\ local' = [local EXCEPT
               !.wifi_devices = scan_wifi_network(local.target_range, net)]
        /\ io' = [io EXCEPT !.probes = @ + (IF frames_sent(net) THEN 1 ELSE 0),
                            !.probe_error = (net.raise_at # -1)]
    /\ pc' = "enrich"
    /\ phases' = Append(phases, "Probing")
    /\ UNCHANGED <<unitVars, frontend, session, shown, cache>>

\* Step 4: the hostname lookups; the dicts of wifi_devices are annotated
\* in place
CliEnrich ==
    /\ frontend = "cli" /\ pc = "enrich"
    /\ \E dns \in [1..Len(local.wifi_devices) -> RunLookups] :
        LET enriched ==
                enrich_wifi_devices_with_hostname(local.wifi_devices, dns)
        IN  /\ local' = [local EXCEPT !.wifi_devices = enriched,
                                      !.enriched = enriched]
            /\ io' = [io EXCEPT !.lookups = @ + Len(enriched)]
    /\ pc' = "bluetooth"
    /\ phases' = Append(phases, "NameEnriching")
    /\ UNCHANGED <<unitVars, frontend, session, shown, cache>>

\* Step 5: the Bluetooth scan
CliBluetooth ==
    /\ frontend = "cli" /\ pc = "bluetooth"
    /\ \E ble \in RunBleak :
        /\ local' = [local EXCEPT
               !.bluetooth_devices = scan_bluetooth_devices(ble)]
        /\ io' = [io EXCEPT !.bt_scans = @ + 1,
                            !.bt_error = (ble.raised # "no")]
    /\ pc' = "display"
    /\ phases' = Append(phases, "ShortRangeScanning")
    /\ UNCHANGED <<unitVars, frontend, session, shown, cache>>

\* Step 6: the two tables
CliDisplay ==
    /\ frontend = "cli" /\ pc = "display"
    /\ shown' = [view |-> "tables", error |-> "none", tables |-> TRUE,
                 wifi |-> display_wifi_results(local.enriched),
                 bt |-> display_bluetooth_results(local.bluetooth_devices)]
    /\ pc' = "exit0"
    /\ phases' = Append(phases, "Complete")
    /\ UNCHANGED <<unitVars, frontend, local, session, io, cache>>

\* the script is launched again: a new process
CliRelaunch ==
    /\ frontend = "cli" /\ pc \in {"exit0", "exit1"}
    /\ pc' = "main"
    /\ local' = LocalInit
    /\ io' = IoInit
    /\ shown' = NothingShown
    /\ phases' = <<>>
    /\ UNCHANGED <<unitVars, frontend, session, cache>>

----------------------------------------------------------------------------
(* lan_watch_dashboard.py: the script, rerun by Streamlit on every click.  *)
(* pc = "page": the script has rendered a page and waits for the user.     *)

\* the user clicks "Start Full Network Scan".  With scan_run False the
\* button's branch is entered and the handler begins; with scan_run True
\* (left so by a stopped run) the branch is skipped and the results view
\* is rendered.
DashClickStart ==
    /\ frontend = "dash" /\ pc = "page" /\ shown.view = "start"
    /\ IF ~session.scan_run
       THEN /\ session' = [session EXCEPT !.scan_run = TRUE]
            /\ pc' = "gate"
            /\ local' = LocalInit
            /\ io' = IoInit
            /\ phases' = <<>>
            /\ UNCHANGED shown
       ELSE /\ shown' = Render(session)
            /\ UNCHANGED <<session, pc, local, io, phases>>
    /\ UNCHANGED <<unitVars, frontend, cache>>

\* the handler without its st.stop(): the scan goes on after the error
DashGate_no_stop ==
    /\ frontend = "dash" /\ pc = "gate"
    /\ \E os \in AdminChecks :
        io' = [io EXCEPT !.gate = @ + 1, !.elevated = is_admin(os)]
    /\ pc' = "resolve"
    /\ UNCHANGED <<unitVars, frontend, local, session, shown, phases, cache>>

\* the admin check of the handler; scan_run is reset and st.stop() called
\* when it fails
DashGate ==
    /\ frontend = "dash" /\ pc = "gate"
    /\ \E os \in AdminChecks :
        /\ io' = [io EXCEPT !.gate = @ + 1, !.elevated = is_admin(os)]
        /\ IF ~is_admin(os)
           THEN /\ session' = [session EXCEPT !.scan_run = FALSE]
                /\ shown' = Stopped("admin")
                /\ pc' = "page"
                /\ phases' = Append(phases, "Failed")
           ELSE /\ pc' = "resolve"
                /\ UNCHANGED <<session, shown, phases>>
    /\ UNCHANGED <<unitVars, frontend, local, cache>>

\* @st.cache_data(ttl=600): the stored value while the entry is valid,
\* otherwise the function is run and its value stored
cached_range(c, proc) ==
    IF c.valid THEN c.value ELSE RunRange[proc]

\* "Finding network range..."; st.stop() when there is none
DashResolve ==
    /\ frontend = "dash" /\ pc = "resolve"
    /\ \E proc \in RunIpconfig :
        LET target_range == cached_range(cache, proc)
        IN  /\ local' = [local EXCEPT !.target_range = target_range]
            /\ cache' = [valid |-> TRUE, value |-> target_range]
            /\ io' = [io EXCEPT !.resolves = @ + 1,
                                !.fresh_range = RunRange[proc]]
            /\ IF target_range = NoRange
               THEN /\ shown' = Stopped("range")
                    /\ pc' = "page"
                    /\ phases' = phases \o <<"RangeResolving", "Failed">>
               ELSE /\ pc' = "probe"
                    /\ phases' = Append(phases, "RangeResolving")
                    /\ UNCHANGED shown
    /\ UNCHANGED <<unitVars, frontend, session>>

\* "Running ARP scan..."
DashProbe ==
    /\ frontend = "dash" /\ pc = "probe"
    /\ \E net \in RunScapy :
        /\ local' = [local EXCEPT
               !.wifi_devices = scan_wifi_network(local.target_range, net)]
        /\ io' = [io EXCEPT !.probes = @ + (IF frames_sent(net) THEN 1 ELSE 0),
                            !.probe_error = (net.raise_at # -1)]
    /\ pc' = "enrich"
    /\ phases' = Append(phases, "Probing")
    /\ UNCHANGED <<unitVars, frontend, session, shown, cache>>

\* the hostname lookups, and st.session_state.wifi_results = enriched_wifi
DashEnrich ==
    /\ frontend = "dash" /\ pc = "enrich"
    /\ \E dns \in [1..Len(local.wifi_devices) -> RunLookups] :
        LET enriched ==
                enrich_wifi_devices_with_hostname(local.wifi_devices, dns)
        IN  /\ local' = [local EXCEPT !.wifi_devices = enriched,
                                      !.enriched = enriched]
            /\ io' = [io EXCEPT !.lookups = @ + Len(enriched)]
            /\ session' = [session EXCEPT !.wifi_results = enriched]
    /\ pc' = "bluetooth"
    /\ phases' = Append(phases, "NameEnriching")
    /\ UNCHANGED <<unitVars, frontend, shown, cache>>

\* the Bluetooth scan, and st.session_state.bt_results = bluetooth_devices
DashBluetooth ==
    /\ frontend = "dash" /\ pc = "bluetooth"
    /\ \E ble \in RunBleak :
        LET bluetooth_devices == scan_bluetooth_devices(ble)
        IN  /\ local' = [local EXCEPT !.bluetooth_devices = bluetooth_devices]
            /\ io' = [io EXCEPT !.bt_scans = @ + 1,
                                !.bt_error = (ble.raised # "no")]
            /\ session' = [session EXCEPT !.bt_results = bluetooth_devices]
    /\ pc' = "rerun"
    /\ phases' = Append(phases, "ShortRangeScanning")
    /\ UNCHANGED <<unitVars, frontend, shown, cache>>

\* st.rerun() at the end of the handler: the script runs again and, with
\* scan_run True, renders the results view
DashShowResults ==
    /\ frontend = "dash" /\ pc = "rerun"
    /\ shown' = Render(session)
    /\ pc' = "page"
    /\ phases' = Append(phases, "Complete")
    /\ UNCHANGED <<unitVars, frontend, local, session, io, cache>>

\* the script is rerun with no button clicked
DashRerun ==
    /\ frontend = "dash" /\ pc = "page"
    /\ shown' = Render(session)
    /\ UNCHANGED <<unitVars, frontend, pc, local, session, io, phases, cache>>

\* the user clicks "Scan Again": the session is reset and st.rerun()
\* renders the start view
DashClickScanAgain ==
    /\ frontend = "dash" /\ pc = "page" /\ shown.view = "results"
    /\ session.scan_run
    /\ session' = SessionInit
    /\ shown' = Render(SessionInit)
    /\ UNCHANGED <<unitVars, frontend, pc, local, io, phases, cache>>

\* ten minutes pass: the cache entry expires
CacheExpire ==
    /\ frontend = "dash" /\ cache.valid
    /\ cache' = NoCache
    /\ UNCHANGED <<unitVars, frontend, pc, local, session, io, shown, phases>>

\* the steps of a run, which the program takes by itself
RunStep ==
    \/ CliGate
    \/ CliResolve
    \/ CliProbe
    \/ CliEnrich
    \/ CliBluetooth
    \/ CliDisplay
    \/ DashGate
    \/ DashResolve
    \/ DashProbe
    \/ DashEnrich
    \/ DashBluetooth
    \/ DashShowResults

\* what the user and the passing of time do
UserStep ==
    \/ CliRelaunch
    \/ DashClickStart
    \/ DashRerun
    \/ DashClickScanAgain
    \/ CacheExpire

Next == RunStep \/ UserStep

Spec == Init /\ [][Next]_vars

\* a run that has begun goes on: main() and the handler are straight-line
\* code whose calls return
FairSpec == Spec /\ WF_vars(RunStep)

----------------------------------------------------------------------------
(* Runs the user interrupts.                                               *)

\* Ctrl-C while main() runs, before the tables are printed: no handler
\* below __main__ catches KeyboardInterrupt, which prints "Scan interrupted
\* by user. Exiting." and leaves with sys.exit(0)
CliKeyboardInterrupt ==
    /\ frontend = "cli"
    /\ pc \in {"main", "resolve", "probe", "enrich", "bluetooth", "display"}
    /\ pc' = "exit0"
    /\ io' = [io EXCEPT !.interrupted = TRUE]
    /\ shown' = [shown EXCEPT !.error = "interrupted"]
    /\ UNCHANGED <<unitVars, frontend, local, session, phases, cache>>

\* the user stops the running script (Streamlit's Stop, or an interaction
\* with the page): the handler ends at the st.write, progress or
\* status.update call it reaches next, and st.session_state stays as the
\* handler left it.  There is no such call between the click and the admin
\* check.
DashStop ==
    /\ frontend = "dash"
    /\ pc \in {"resolve", "probe", "enrich", "bluetooth", "rerun"}
    /\ pc' = "page"
    /\ io' = [io EXCEPT !.interrupted = TRUE]
    /\ shown' = Stopped("none")
    /\ UNCHANGED <<unitVars, frontend, local, session, phases, cache>>

InterruptStep == CliKeyboardInterrupt \/ DashStop

InterruptNext == Next \/ InterruptStep

\* the program with a user who may interrupt a run
InterruptSpec == Init /\ [][InterruptNext]_vars

----------------------------------------------------------------------------
(* Properties of the range resolver.                                       *)

RECURSIVE And8(_, _)
And8(a, b) ==
    IF a = 0 \/ b = 0 THEN 0
    ELSE (a % 2) * (b % 2) + 2 * And8(a \div 2, b \div 2)

RECURSIVE PopCount(_)
PopCount(n) == IF n = 0 THEN 0 ELSE (n % 2) + PopCount(n \div 2)

\* the address is in 169.254.0.0/16
LinkLocal(ip) == ip[1] = 169 /\ ip[2] = 254

\* ones, then zeroes
IsSubnetMask(mask) ==
    /\ ValidOctets(mask)
    /\ LET b == Bits32(mask) IN \A i \in 1..31 : b[i] >= b[i + 1]

\* zeroes, then ones
IsHostMask(mask) ==
    /\ ValidOctets(mask)
    /\ LET b == Bits32(mask) IN \A i \in 1..31 : b[i] <= b[i + 1]

IsInterface(m) ==
    ValidOctets(m.ip) /\ (IsSubnetMask(m.mask) \/ IsHostMask(m.mask))

\* address AND mask, and the number of one-bits of the mask
MaskedNetwork(m) ==
    [base |-> [i \in 1..4 |-> And8(m.ip[i], m.mask[i])],
     prefix |-> PopCount(m.mask[1]) + PopCount(m.mask[2])
                    + PopCount(m.mask[3]) + PopCount(m.mask[4])]

\* the network of an interface whose mask may be written as a host mask
NetworkOf(m) ==
    IF IsSubnetMask(m.mask) THEN MaskedNetwork(m)
    ELSE MaskedNetwork([ip |-> m.ip, mask |-> [i \in 1..4 |-> 255 - m.mask[i]]])

\* the (address, mask) pairs of the text, in document order
PairsOf(text) ==
    LET at == {i \in 1..(Len(text) - 1) :
                   text[i].kind = "ip" /\ text[i + 1].kind = "mask"}
        nth[k \in 0..Len(text)] ==
            IF k = 0 THEN 0
            ELSE CHOOSE i \in at : i > nth[k - 1]
                                   /\ \A j \in at : j > nth[k - 1] => i <= j
    IN  [k \in 1..Cardinality(at) |->
            [ip |-> text[nth[k]].val, mask |-> text[nth[k] + 1].val]]

\* the index of the first pair whose address is not link-local, 0 if none
FirstQualifying(ps) ==
    IF \A k \in 1..Len(ps) : LinkLocal(ps[k].ip) THEN 0
    ELSE CHOOSE k \in 1..Len(ps) :
             /\ ~LinkLocal(ps[k].ip)
             /\ \A j \in 1..(k - 1) : LinkLocal(ps[j].ip)

Resolved ==
    call.fn = "get_local_network_range_windows" /\ ret.done

\* C2: when ipconfig's text holds (IPv4 address, subnet mask) pairs, the
\* resolver returns the network of the first pair in document order whose
\* address is not in 169.254.0.0/16: base = address AND mask, prefix length
\* = number of one-bits of the mask; link-local pairs before it are skipped
\* and the pairs after it do not matter.
C2_FirstQualifyingPairDecides ==
    (Resolved /\ ~call.proc.raised) =>
        LET ps == PairsOf(call.proc.stdout)
            k == FirstQualifying(ps)
        IN  (k # 0 /\ ValidOctets(ps[k].ip) /\ IsSubnetMask(ps[k].mask))
                => ret.val = MaskedNetwork(ps[k])

\* a link-local pair, then 192.168.1.42/255.255.255.0, then a pair of
\* another network: the answer is 192.168.1.0/24
C2_Witness ==
    /\ Resolved
    /\ ~call.proc.raised
    /\ LET ps == PairsOf(call.proc.stdout)
       IN  /\ Len(ps) = 3
           /\ LinkLocal(ps[1].ip)
           /\ ps[2] = [ip |-> <<192, 168, 1, 42>>, mask |-> <<255, 255, 255, 0>>]
           /\ ps[3].ip = <<10, 0, 0, 5>>
    /\ ret.val = [base |-> <<192, 168, 1, 0>>, prefix |-> 24]

\* C3: the resolver returns the no-range value when ipconfig fails, when
\* the text holds no address/mask pair, when every pair is link-local, and
\* when the first pair that is not link-local is not a valid IPv4 interface;
\* a range it does return is the network of a pair that is not link-local.
C3_RangeNotFound ==
    Resolved =>
        LET ps == IF call.proc.raised THEN <<>> ELSE PairsOf(call.proc.stdout)
            k == FirstQualifying(ps)
        IN  /\ (call.proc.raised \/ k = 0 \/ ~IsInterface(ps[k]))
                => ret.val = NoRange
            /\ ret.val # NoRange =>
                   \E j \in 1..Len(ps) :
                       /\ ~LinkLocal(ps[j].ip)
                       /\ IsInterface(ps[j])
                       /\ ret.val = NetworkOf(ps[j])

\* only link-local pairs (169.254.1.5/255.255.0.0 twice): no range
C3_Witness ==
    /\ Resolved
    /\ ~call.proc.raised
    /\ LET ps == PairsOf(call.proc.stdout)
       IN  /\ Len(ps) = 2
           /\ \A k \in 1..2 :
                  ps[k] = [ip |-> <<169, 254, 1, 5>>, mask |-> <<255, 255, 0, 0>>]
    /\ ret.val = NoRange

----------------------------------------------------------------------------
(* Properties of the link-layer prober.                                    *)

Probed == call.fn = "scan_wifi_network" /\ ret.done

\* C4: the host list scan_wifi_network returns never holds two entries
\* with the same IP address, whatever responses arrived; when several
\* responses carry the same source address the one entry kept has the link
\* address of the last of them.
C4_NoDuplicateAddresses ==
    Probed =>
        /\ \A i, j \in 1..Len(ret.val) :
               i # j => ret.val[i].ip # ret.val[j].ip
        /\ call.net.raise_at = -1 =>
               \A k \in 1..Len(call.net.answered) :
                   (\A l \in (k + 1)..Len(call.net.answered) :
                        call.net.answered[l].psrc # call.net.answered[k].psrc)
                   => \E i \in 1..Len(ret.val) :
                          /\ ret.val[i].ip = call.net.answered[k].psrc
                          /\ ret.val[i].mac = call.net.answered[k].hwsrc

\* C5: scan_wifi_network returns normally whatever raises inside it, and
\* every host recorded before the error is in the list it returns.
C5_PartialResultsKept ==
    Probed =>
        \A k \in 1..(call.net.raise_at - 1) :
            \E i \in 1..Len(ret.val) :
                /\ ret.val[i].ip = call.net.answered[k].psrc
                /\ ret.val[i].mac = call.net.answered[k].hwsrc

----------------------------------------------------------------------------
(* Properties of the hostname lookups.                                     *)

Enriched == call.fn = "enrich_wifi_devices_with_hostname" /\ ret.done

\* the name a lookup outcome stands for: the hostname of a successful
\* lookup, "N/A" for not found, timed out and any other error
NameOrNA(out) == IF out.kind = "ok" THEN out.hostname ELSE "N/A"

\* C6: every name a hostname-lookup routine records for a host is the
\* hostname its successful reverse lookup returned, or "N/A"; not found,
\* timed out and other errors all give "N/A" and never another value.
C6_OnlyHostnameOrNA ==
    /\ Enriched =>
           /\ Len(ret.val) = Len(call.clients)
           /\ \A i \in 1..Len(ret.val) :
                  ret.val[i].name = NameOrNA(call.dns[i])
    /\ (call.fn = "get_device_hostname" /\ ret.done) =>
           \A e \in ret.val : e[1] = call.ip => e[2] = NameOrNA(call.out)

\* C7: lookups are isolated per host: a lookup that times out is recorded
\* as "N/A" for its host only, every host is annotated, and no host's
\* lookup ends later than its own per-lookup budget after the batch began
\* because another host's lookup was slow.
C7_LookupsIsolated ==
    Enriched =>
        /\ Len(ret.val) = Len(call.clients)
        /\ \A i \in 1..Len(ret.val) :
               /\ ret.val[i].name = NameOrNA(call.dns[i])
               /\ ret.times[i][2] <= SocketDefaultTimeout

\* C15: enrich_wifi_devices_with_hostname returns the hosts it was given:
\* as many, in the same order, each with its IP and MAC address unchanged
\* and with nothing but a name added, after one lookup per host; for the
\* empty list it returns the empty list and looks nothing up.
C15_EnrichKeepsHosts ==
    Enriched =>
        /\ Len(ret.val) = Len(call.clients)
        /\ \A i \in 1..Len(ret.val) :
               /\ ret.val[i].ip = call.clients[i].ip
               /\ ret.val[i].mac = call.clients[i].mac
               /\ DOMAIN ret.val[i] = DOMAIN call.clients[i] \cup {"name"}
        /\ Len(ret.times) = Len(call.clients)
        /\ call.clients = <<>> => (ret.val = <<>> /\ ret.times = <<>>)

\* two different hosts, the higher address first, one named and one whose
\* lookup timed out, have been returned
C15_Witness ==
    /\ Enriched
    /\ Len(call.clients) = 2
    /\ call.clients[1].ip = <<10, 0, 0, 10>>
    /\ call.clients[2].ip = <<10, 0, 0, 2>>
    /\ call.clients[1].mac # call.clients[2].mac
    /\ call.dns[1].kind = "timeout"
    /\ call.dns[2].kind = "ok"
    /\ ret.val[1].name = "N/A"
    /\ ret.val[2].name = call.dns[2].hostname

----------------------------------------------------------------------------
(* Properties of the short-range scan.                                     *)

Scanned == call.fn = "scan_bluetooth_devices" /\ ret.done

NamedAdvert(d) == ~(d.name \in {PyNone, "", "Unknown"})

\* C8: the device list holds one entry {name, mac} for each advertisement
\* whose name is not empty and not "Unknown", in the order received, and
\* no entry whose name is empty, absent or "Unknown"; "unknown" is kept.
C8_NamedAdvertsOnly ==
    (Scanned /\ call.ble.raised = "no") =>
        LET kept == SelectSeq(call.ble.discovered, NamedAdvert)
        IN  /\ ret.val = [i \in 1..Len(kept) |->
                             [name |-> kept[i].name, mac |-> kept[i].address]]
            /\ \A i \in 1..Len(ret.val) :
                   ~(ret.val[i].name \in {PyNone, "", "Unknown"})

\* "Unknown" is dropped, "unknown" and "Speaker" are kept in that order
C8_Witness ==
    /\ Scanned
    /\ call.ble.raised = "no"
    /\ Len(call.ble.discovered) = 3
    /\ call.ble.discovered[1].name = "unknown"
    /\ call.ble.discovered[2].name = "Unknown"
    /\ call.ble.discovered[3].name = "Speaker"
    /\ Len(ret.val) = 2
    /\ ret.val[1].name = "unknown"
    /\ ret.val[2].name = "Speaker"

----------------------------------------------------------------------------
(* Properties of a run.                                                    *)

Entered(phase) == \E i \in 1..Len(phases) : phases[i] = phase

NothingTransmitted ==
    io.probes = 0 /\ io.lookups = 0 /\ io.bt_scans = 0

\* C1: in every run of either front end the admin check is made, once,
\* before the range is resolved and before any frame, lookup or Bluetooth
\* scan; when it reports not elevated the run ends there: no range is
\* resolved or used, nothing is sent, looked up or scanned.
C1_GateBeforeAnything ==
    /\ io.gate <= 1
    /\ (io.resolves > 0 \/ ~NothingTransmitted) => (io.gate = 1 /\ io.elevated)
    /\ (io.gate = 1 /\ ~io.elevated) =>
           /\ phases = <<"Failed">>
           /\ pc \in {"exit1", "page"}
           /\ io.resolves = 0
           /\ local = LocalInit
           /\ NothingTransmitted
           /\ ~shown.tables

\* the dashboard's handler stopped by the admin check
C1_Witness ==
    /\ frontend = "dash"
    /\ io.gate = 1
    /\ ~io.elevated
    /\ shown.error = "admin"
    /\ phases = <<"Failed">>

\* s and t hold the same rows, each as many times
SameRows(s, t) ==
    /\ Len(s) = Len(t)
    /\ \A x \in {s[i] : i \in 1..Len(s)} \cup {t[i] : i \in 1..Len(t)} :
           Cardinality({i \in 1..Len(s) : s[i] = x})
               = Cardinality({i \in 1..Len(t) : t[i] = x})

\* the run has just reached Complete
Completing == ~Entered("Complete") /\ Entered("Complete")'

\* C9: when the Bluetooth scan raises BleakError the run does not fail:
\* the Bluetooth result is the empty list, the enriched Wi-Fi hosts stay as
\* they were, and the run goes on to Complete, where both lists are shown
\* (and, in the dashboard, stored).
C9_AdapterUnavailableAbsorbed ==
    /\ [](io.bt_error =>
            /\ local.bluetooth_devices = <<>>
            /\ ~Entered("Failed"))
    /\ [][(io'.bt_error /\ ~Entered("ShortRangeScanning")
              /\ Entered("ShortRangeScanning")')
             => local'.enriched = local.enriched]_vars
    /\ [][(Completing /\ io.bt_error) =>
             /\ shown'.tables
             /\ shown'.bt = <<>>
             /\ SameRows(shown'.wifi, local.enriched)
             /\ frontend = "dash" =>
                    /\ session'.bt_results = <<>>
                    /\ session'.wifi_results = local.enriched]_vars
    /\ (io.bt_error ~> Entered("Complete"))

\* a run with two named hosts whose Bluetooth scan failed is Complete
C9_Witness ==
    /\ io.bt_error
    /\ Entered("Complete")
    /\ Len(local.enriched) = 2
    /\ shown.tables
    /\ Len(shown.wifi) = 2
    /\ shown.bt = <<>>

PhaseOrder ==
    <<"RangeResolving", "Probing", "NameEnriching", "ShortRangeScanning",
      "Complete">>

\* the phase sequences a run may have behind it
AllowedPhases ==
    {SubSeq(PhaseOrder, 1, n) : n \in 0..Len(PhaseOrder)}
        \cup {<<"Failed">>, <<"RangeResolving", "Failed">>}

----------------------------------------------------------------------------
(* Properties of the presentation.                                         *)

\* no row of s comes before a row that is less than it; lt(x, y) is given
\* as the matrix of its values on the rows
Ascending(s, lt) ==
    \A i \in 1..Len(s) : \A j \in (i + 1)..Len(s) : ~lt[j][i]

\* the rows without the name column
Addresses(s) == [i \in 1..Len(s) |-> [ip |-> s[i].ip, mac |-> s[i].mac]]

\* C11: whenever the tables of a completed run are on display, in the
\* terminal or in the dashboard, the Wi-Fi rows are in ascending numeric
\* order of IP address and the Bluetooth rows in ascending case-sensitive
\* order of name, and the rows shown are a permutation of the run's two
\* result lists.
C11_TablesSorted ==
    (Entered("Complete") /\ shown.tables) =>
        /\ Ascending(shown.wifi,
               [i \in 1..Len(shown.wifi) |-> [j \in 1..Len(shown.wifi) |->
                   ip_address_less(shown.wifi[i], shown.wifi[j])]])
        /\ Ascending(shown.bt,
               [i \in 1..Len(shown.bt) |-> [j \in 1..Len(shown.bt) |->
                   name_less(shown.bt[i], shown.bt[j])]])
        /\ SameRows(Addresses(shown.wifi), Addresses(local.enriched))
        /\ SameRows(shown.bt, local.bluetooth_devices)

----------------------------------------------------------------------------
(* Properties of consecutive runs.                                         *)

\* C12: a run uses nothing of an earlier run: the range it works with is the
\* one the interface configuration gives during this run, and until the run
\* stores its own lists the session holds no results of an earlier run.
C12_RunsIndependent ==
    /\ Entered("RangeResolving") => local.target_range = io.fresh_range
    /\ (frontend = "dash" /\ pc \in {"gate", "resolve", "probe", "enrich"}) =>
           /\ session.wifi_results = <<>>
           /\ session.bt_results = <<>>
    /\ (frontend = "dash" /\ pc = "bluetooth") => session.bt_results = <<>>

\* C13: in the dashboard the results view is on display only when the run
\* behind it passed the admin check, resolved a range and stored both
\* lists; after a run that failed on the admin check or on the range,
\* scan_run is False and no result tables are on display.
C13_FailedRunShowsNothing ==
    frontend = "dash" =>
        /\ shown.view = "results" =>
               /\ phases = PhaseOrder
               /\ io.gate = 1 /\ io.elevated
               /\ local.target_range # NoRange
               /\ session.wifi_results = local.enriched
               /\ session.bt_results = local.bluetooth_devices
        /\ Entered("Failed") =>
               /\ ~session.scan_run
               /\ ~shown.tables

----------------------------------------------------------------------------
(* Properties of interrupted runs.                                         *)

\* C14: once a run was interrupted before Complete the terminal shows
\* neither table, and the dashboard's session does not hold, with scan_run
\* True, the hosts the run found while the Bluetooth list of the run was
\* never stored.
C14_InterruptPublishesNothing ==
    io.interrupted =>
        /\ ~Entered("Complete")
        /\ frontend = "cli" => ~shown.tables
        /\ frontend = "dash" =>
               ~ /\ session.scan_run
                 /\ session.wifi_results # <<>>
                 /\ Entered("NameEnriching")
                 /\ ~Entered("ShortRangeScanning")

====
